---------------------------- MODULE Spec2Model ----------------------------
(***************************************************************************)
(* A model of lean.components.docker.docker_manager.DockerManager.         *)
(*                                                                         *)
(* run_image is modelled as three interleaved activities of one process:   *)
(*   - the main control flow (variable pc), one step per statement group;  *)
(*   - the SIGINT handler, which Python runs on the main thread between    *)
(*     two bytecodes of whatever the main thread is executing, also of an  *)
(*     earlier invocation of the handler itself: the invocations form a    *)
(*     stack (variable handlers) and only the topmost one runs;            *)
(*   - the daemon thread print_logs (variables thread, chunk_buffer).      *)
(* The Docker daemon is the environment: a container is running, exited or *)
(* removed, and a request the container's state does not allow is answered *)
(* by an error, which docker-py raises as APIError (kill of a container    *)
(* that is not running: 409; any request on a removed container: 404;      *)
(* remove of a running container: 409).                                    *)
(***************************************************************************)
EXTENDS Integers, Sequences, FiniteSets, TLC

(***************************************************************************)
(* Bounds of the model.                                                    *)
(***************************************************************************)
\* how many SIGINTs are delivered to the process
MaxInterrupts == 2
\* how many chunks the container writes to its output stream
MaxChunks == 2
\* how many volumes exist before the first call of create_site_packages_volume
MaxVolumes == 3
\* the largest value of SITE_PACKAGES_VOLUME_LIMIT
MaxVolumeLimit == 2
\* how many lines a requirements file has
MaxLines == 2
\* how many projects the cloud holds
MaxProjects == 3
\* how many characters the text of an image reference has
MaxImageLen == 4

(***************************************************************************)
(* Dictionaries (Python dict / **kwargs) as functions on a set of keys.    *)
(***************************************************************************)
EmptyDict == [k \in {} |-> k]

Has(d, k) == k \in DOMAIN d

Get(d, k, default) == IF k \in DOMAIN d THEN d[k] ELSE default

Put(d, k, v) == [x \in (DOMAIN d) \cup {k} |-> IF x = k THEN v ELSE d[x]]

Pop(d, k) == [x \in (DOMAIN d) \ {k} |-> d[x]]

(***************************************************************************)
(* The inputs of one call of run_image.                                    *)
(***************************************************************************)
\* str(image) of the image to run, and the tags of another image
ImageName == "quantconnect/lean:latest"
OtherImageName == "quantconnect/research:latest"

\* docker_client.images.list(): each image is modelled by its set of tags
LocalImageLists == { {{OtherImageName}}, {{OtherImageName}, {ImageName}} }

\* the stop signals a caller passes
StopSignals == {"SIGKILL", "SIGTERM"}

\* the commands a caller passes
CommandLists == { <<"echo hi", "echo bye">> }

\* the **kwargs of the caller
CallerKwargs ==
    LET sigs == {EmptyDict} \cup { "stop_signal" :> s : s \in StopSignals }
        cmds == {EmptyDict} \cup { "commands" :> c : c \in CommandLists }
    IN  { s @@ c : s \in sigs, c \in cmds }

\* the exit code of a container ended by SIGKILL
KilledExitCode == 128 + 9

\* the exit codes of a container that ends without a request of this process:
\* its process succeeded, or was killed (by the kernel, by another client)
ExitCodes == {0, KilledExitCode}

\* the exit status of the docker image pull process
PullReturnCodes == {0, 1}

(***************************************************************************)
(* The output of the container.  A byte is one of four: the newline, the   *)
(* bytes "P" and "k" whose concatenation "Pk" stands for the sentinel      *)
(* "Press any key to exit...", and "R" for the sentinel                    *)
(* "QuantConnect.Report.Main(): Completed.".  A lone "P" or "k" is         *)
(* ordinary text.  A chunk is what one iteration of container.logs yields. *)
(***************************************************************************)
NL == "\n"
PressAnyKey == <<"P", "k">>
ReportCompleted == <<"R">>

Chunks == { <<"P">>, <<"k", NL>>, <<"R", NL>>, <<"k", NL, "P", "k", NL, "k">> }

VARIABLES
    is_tty,          \* sys.stdout.isatty()
    docker_daemon,   \* the Docker daemon as docker.from_env() and ping() find it
    images,          \* the local images, each a set of tags
    caller_kwargs,   \* the kwargs run_image was called with
    kwargs,          \* the kwargs dictionary as run_image rewrites it
    shell_script,    \* the files written: a sequence of contents (at most one)
    run_config,      \* the kwargs handed to docker_client.containers.run, a sequence (at most one)
    pc,              \* the position of the main control flow
    error,           \* the exception that left run_image, or "none"
    success,         \* the local variable success
    container,       \* the container: [state, exit_code]
    force_kill,      \* the nonlocal flag of signal_handler
    sigint_handler,  \* the handler signal.signal installed for SIGINT
    handlers,        \* the stack of running invocations of signal_handler
    exit_status,     \* the exit status of the process, -1 while it runs
    thread,          \* the position of the print_logs thread
    chunk_buffer,    \* the local variable chunk_buffer of print_logs
    hist,            \* history of what was called, for the properties
    volumes,         \* docker_client.volumes.list(): a sequence of [name, created]
    volume_limit,    \* SITE_PACKAGES_VOLUME_LIMIT
    requirements_file,  \* the lines of the file given to the last call of create_site_packages_volume
    required_volume, \* what the last call of create_site_packages_volume returned
    vol_hist,        \* history of the calls of create_site_packages_volume, for the properties
    pull_cmd,        \* the invocation of the command pull: its options, the cloud projects, what it pulls
    image_ref        \* an image reference: the text, the parsed value and its rendering

\* the variables of run_image
run_vars == << is_tty, docker_daemon, images, caller_kwargs, kwargs,
               shell_script, run_config, pc, error, success, container,
               force_kill, sigint_handler, handlers, exit_status, thread,
               chunk_buffer, hist >>

\* the variables of create_site_packages_volume
volume_vars == << volumes, volume_limit, requirements_file, required_volume, vol_hist >>

\* the variables of the command pull and of the image references
command_vars == << pull_cmd, image_ref >>

\* what run_image leaves alone
other_vars == << volume_vars, command_vars >>

vars == << run_vars, volume_vars, command_vars >>


(***************************************************************************)
(* Pure helpers, as the code computes them.                                *)
(***************************************************************************)
\* a variant of image_installed: true as soon as any image is installed
ImageInstalled_AnyImage(image, imgs) == imgs # {}

\* image_installed: any(str(image) in x.tags for x in docker_client.images.list())
ImageInstalled(image, imgs) == \E x \in imgs : image \in x

\* a variant of pull_image that ignores the return code
PullRaises_Never(returncode) == FALSE

\* pull_image: if process.returncode != 0: raise RuntimeError
PullRaises(returncode) == returncode # 0

\* the Docker daemon: it runs and answers, docker.from_env() raises (Docker
\* is not installed, the socket is not accessible), ping() returns false, or
\* ping() raises
DaemonStates == {"running", "from_env_raises", "ping_false", "ping_raises"}

\* line 299: docker.from_env() raises
FromEnvRaises(daemon) == daemon = "from_env_raises"

\* line 304: docker_client.ping() raises
PingRaises(daemon) == daemon = "ping_raises"

\* line 304: what docker_client.ping() returns
Ping(daemon) == daemon = "running"

\* a variant of _get_docker_client that does not look at what ping() returns
GetDockerClientRaises_IgnoresPing(daemon) == FromEnvRaises(daemon) \/ PingRaises(daemon)

\* _get_docker_client, lines 295-310: raises MoreInfoError("Please make sure
\* Docker is installed and running", link) unless from_env() succeeds and
\* ping() returns true
GetDockerClientRaises(daemon) ==
    IF FromEnvRaises(daemon) THEN TRUE
    ELSE IF PingRaises(daemon) THEN TRUE
    ELSE ~Ping(daemon)

\* "\n".join(lines), the strings of lines and the separators kept as tokens
RECURSIVE JoinLines(_)
JoinLines(lines) ==
    IF Len(lines) = 0 THEN <<>>
    ELSE IF Len(lines) = 1 THEN <<lines[1]>>
    ELSE <<lines[1], NL>> \o JoinLines(Tail(lines))

\* "\n".join(["#!/usr/bin/env bash", "set -e"] + commands) + "\n"
ScriptContent(cmds) == JoinLines(<<"#!/usr/bin/env bash", "set -e">> \o cmds) \o <<NL>>

\* Mount(target="/lean-cli-start.sh", source=str(shell_script_path), type="bind")
ScriptMount == [target |-> "/lean-cli-start.sh", source |-> "lean-cli-start.sh", type |-> "bind"]

\* a variant of lines 91-103 that keeps the entrypoint of the caller
StagedKwargs_KeepsEntrypoint(kw) ==
    LET popped == Pop(Pop(kw, "on_output"), "commands")
    IN  IF Has(kw, "commands")
        THEN LET mounted == Put(popped, "mounts", Append(Get(popped, "mounts", <<>>), ScriptMount))
             IN  IF Has(kw, "entrypoint") THEN mounted
                 ELSE Put(mounted, "entrypoint", <<"bash", "/lean-cli-start.sh">>)
        ELSE popped

\* a variant of lines 91-103 that stages a list of commands only if it is not empty
StagedKwargs_SkipsEmpty(kw) ==
    LET popped == Pop(Pop(kw, "on_output"), "commands")
    IN  IF Has(kw, "commands") /\ kw["commands"] # <<>>
        THEN Put(Put(popped, "mounts", Append(Get(popped, "mounts", <<>>), ScriptMount)),
                 "entrypoint", <<"bash", "/lean-cli-start.sh">>)
        ELSE popped

\* a variant of lines 91-103 that forgets to pop on_output
StagedKwargs_KeepsOnOutput(kw) ==
    LET popped == Pop(kw, "commands")
    IN  IF Has(kw, "commands")
        THEN Put(Put(popped, "mounts", Append(Get(popped, "mounts", <<>>), ScriptMount)),
                 "entrypoint", <<"bash", "/lean-cli-start.sh">>)
        ELSE popped

\* lines 91-103: pop on_output and commands; stage the commands as a script
StagedKwargs(kw) ==
    LET popped == Pop(Pop(kw, "on_output"), "commands")
    IN  IF Has(kw, "commands")
        THEN Put(Put(popped, "mounts", Append(Get(popped, "mounts", <<>>), ScriptMount)),
                 "entrypoint", <<"bash", "/lean-cli-start.sh">>)
        ELSE popped

\* the files lines 95-97 write
StagedFiles(kw) == IF Has(kw, "commands") THEN <<ScriptContent(kw["commands"])>> ELSE <<>>

\* a variant that forwards SIGKILL whatever the caller passed
StopSignalOf_AlwaysKill(kw) == "SIGKILL"

\* a variant with another default stop signal
StopSignalOf_Sigterm(kw) == Get(kw, "stop_signal", "SIGTERM")

\* kwargs["stop_signal"] = kwargs.get("stop_signal", "SIGKILL")
StopSignalOf(kw) == Get(kw, "stop_signal", "SIGKILL")

\* platform.node()
Hostname == "localhost"

\* a variant of lines 107-111 that keeps the detach of the caller
ConfiguredKwargs_KeepsDetach(kw, tty) ==
    Put(Put(Put(Put(Put(kw, "detach", Get(kw, "detach", TRUE)), "hostname", Hostname), "tty", tty),
            "stdin_open", tty), "stop_signal", StopSignalOf(kw))

\* lines 107-111
ConfiguredKwargs(kw, tty) ==
    Put(Put(Put(Put(Put(kw, "detach", TRUE), "hostname", Hostname), "tty", tty),
            "stdin_open", tty), "stop_signal", StopSignalOf(kw))

\* a variant of line 125 without the "not"
HandlerKills_TtyKills(tty, fk, sig) == tty \/ fk \/ sig = "SIGKILL"

\* a variant of line 125 that does not read the stop signal
HandlerKills_IgnoresSignal(tty, fk, sig) == (~tty) \/ fk

\* a variant of line 125 that does not read force_kill
HandlerKills_IgnoresFlag(tty, fk, sig) == (~tty) \/ sig = "SIGKILL"

\* line 125: if not is_tty or force_kill or kwargs["stop_signal"] == "SIGKILL"
HandlerKills(tty, fk, sig) == (~tty) \/ fk \/ sig = "SIGKILL"

\* container.stop(timeout=60)
StopTimeout == 60

\* a variant of line 178 with the comparison inverted
ExitSuccess_Inverted(code) == code # 0

\* line 178: container.attrs["State"]["ExitCode"] == 0
ExitSuccess(code) == code = 0

\* a variant of line 149 that forwards every chunk as it comes
EndsWithNewline_Always(buf) == TRUE

\* chunk_buffer.endswith(b"\n")
EndsWithNewline(buf) == Len(buf) > 0 /\ buf[Len(buf)] = NL

\* pattern in text, for sequences of bytes
Contains(text, pattern) ==
    \E i \in 1..(Len(text) - Len(pattern) + 1) :
        SubSeq(text, i, i + Len(pattern) - 1) = pattern

\* line 163
ContainsSentinel(chunk) == Contains(chunk, PressAnyKey) \/ Contains(chunk, ReportCompleted)

\* a variant without the test of is_tty at line 160
SendsNewline_NoTtyCheck(tty, chunk) == ContainsSentinel(chunk)

\* lines 160-163: whether the iteration goes on to write to the input stream
SendsNewline(tty, chunk) == tty /\ ContainsSentinel(chunk)

(***************************************************************************)
(* The Docker daemon: which requests the state of the container allows.    *)
(* A request it does not allow raises APIError in the caller.              *)
(***************************************************************************)
NoContainer == [state |-> "none", exit_code |-> -1]

KillAllowed(c) == c.state = "running"

StopAllowed(c) == c.state \in {"running", "exited"}

RemoveAllowed(c) == c.state = "exited"

\* the container after its process ended with the given code
Exited(c, code) == [c EXCEPT !.state = "exited", !.exit_code = code]

Removed(c) == [c EXCEPT !.state = "removed"]

(***************************************************************************)
(* The volumes while run_image alone is looked at: nothing creates or      *)
(* removes one.                                                            *)
(***************************************************************************)
NoVolumeHistory ==
    [calls |-> 0, before |-> <<>>, prev_file |-> <<>>, prev_volume |-> <<>>, name |-> <<>>]

VolumesIdle ==
    /\ volumes = <<>>
    /\ volume_limit = 1
    /\ requirements_file = <<>>
    /\ required_volume = <<>>
    /\ vol_hist = NoVolumeHistory

\* the command pull is not invoked and no image reference is parsed
NoPull == [state |-> "idle"]

NoImage == [state |-> "idle"]

CommandsIdle ==
    /\ pull_cmd = NoPull
    /\ image_ref = NoImage

(***************************************************************************)
(* The initial state: run_image has just been called.  The variable hist   *)
(* records what the properties speak about: the calls made so far.         *)
(***************************************************************************)
\* how many of the lines of a decoded text contain a sentinel; line is the
\* part of the current line already passed
RECURSIVE SentinelLines(_, _)
SentinelLines(text, line) ==
    IF text = <<>> THEN 0
    ELSE IF Head(text) = NL
         THEN (IF ContainsSentinel(line) THEN 1 ELSE 0) + SentinelLines(Tail(text), <<>>)
         ELSE SentinelLines(Tail(text), Append(line, Head(text)))

NoHistory ==
    [ installed |-> FALSE, pulls |-> 0, pull_returncode |-> -1, notices |-> 0, kills |-> 0, stops |-> <<>>,
      stdin_writes |-> 0, sentinel_units |-> 0, sentinel_lines |-> 0, chunks |-> 0,
      interrupts |-> 0, handled |-> 0, during_run |-> FALSE,
      record |-> FALSE, produced |-> <<>>, forwarded |-> <<>>, logged |-> <<>>,
      after_remove |-> {} ]

\* chunk.rstrip(), line 158: the text without the newlines at its end (of
\* the bytes of the model only the newline is white space)
RECURSIVE Rstrip(_)
Rstrip(text) ==
    IF text = <<>> \/ text[Len(text)] # NL THEN text
    ELSE Rstrip(SubSeq(text, 1, Len(text) - 1))

\* the history of the bytes, kept where h.record says so: the chunk read
\* from the stream, and the unit given to on_output (line 155) and, stripped,
\* to the logger (line 158), if the iteration came that far
Recorded(h, chunk, forwards, unit) ==
    IF ~h.record THEN h
    ELSE [h EXCEPT !.produced = @ \o chunk,
                   !.forwarded = IF forwards THEN Append(@, unit) ELSE @,
                   !.logged = IF forwards THEN Append(@, Rstrip(unit)) ELSE @]

\* the history with the request noted, if the container it goes to has
\* been removed
Requested(h, request) ==
    IF container.state = "removed"
    THEN [h EXCEPT !.after_remove = @ \cup {request}]
    ELSE h

Init ==
    /\ is_tty \in BOOLEAN
    /\ docker_daemon \in DaemonStates
    /\ images \in LocalImageLists
    /\ caller_kwargs \in CallerKwargs
    /\ kwargs = caller_kwargs
    /\ shell_script = <<>>
    /\ run_config = <<>>
    /\ pc = "image_installed"
    /\ error = "none"
    /\ success = FALSE
    /\ container = NoContainer
    /\ force_kill = FALSE
    /\ sigint_handler = "default"
    /\ handlers = <<>>
    /\ exit_status = -1
    /\ thread = "unstarted"
    /\ chunk_buffer = <<>>
    /\ hist = [NoHistory EXCEPT !.installed = \E x \in images : ImageName \in x]
    /\ VolumesIdle
    /\ CommandsIdle

\* the process runs: it has not exited and no exception has left run_image
Alive == exit_status = -1 /\ error = "none"

\* the main control flow executes: no invocation of the handler is on top of it
MainRuns == Alive /\ handlers = <<>>

(***************************************************************************)
(* The main control flow of run_image.                                     *)
(***************************************************************************)
\* line 88: self.image_installed(image), which first gets the docker client
ImageInstalledCheck ==
    /\ MainRuns /\ pc = "image_installed"
    /\ IF GetDockerClientRaises(docker_daemon)
       THEN /\ error' = "MoreInfoError"
            /\ pc' = "raised"
       ELSE /\ error' = error
            /\ pc' = IF ImageInstalled(ImageName, images) THEN "stage" ELSE "pull"
    /\ UNCHANGED << is_tty, docker_daemon, images, caller_kwargs, kwargs,
                    shell_script, run_config, success, container, force_kill,
                    sigint_handler, handlers, exit_status, thread, chunk_buffer, hist >>
    /\ UNCHANGED other_vars

\* line 89 and pull_image, lines 56-70
PullImage ==
    /\ MainRuns /\ pc = "pull"
    /\ \E returncode \in PullReturnCodes :
        IF PullRaises(returncode)
        THEN /\ error' = "RuntimeError"
             /\ pc' = "raised"
             /\ images' = images
             /\ hist' = [hist EXCEPT !.pulls = @ + 1, !.pull_returncode = returncode]
        ELSE /\ error' = error
             /\ pc' = "stage"
             /\ images' = images \cup {{ImageName}}
             /\ hist' = [hist EXCEPT !.pulls = @ + 1, !.pull_returncode = returncode]
    /\ UNCHANGED << is_tty, docker_daemon, caller_kwargs, kwargs, shell_script,
                    run_config, success, container, force_kill, sigint_handler,
                    handlers, exit_status, thread, chunk_buffer >>
    /\ UNCHANGED other_vars

\* lines 91-103
StageCommands ==
    /\ MainRuns /\ pc = "stage"
    /\ kwargs' = StagedKwargs(kwargs)
    /\ shell_script' = shell_script \o StagedFiles(kwargs)
    /\ pc' = "configure"
    /\ UNCHANGED << is_tty, docker_daemon, images, caller_kwargs, run_config,
                    error, success, container, force_kill, sigint_handler,
                    handlers, exit_status, thread, chunk_buffer, hist >>
    /\ UNCHANGED other_vars

\* lines 105-114
Configure ==
    /\ MainRuns /\ pc = "configure"
    /\ kwargs' = ConfiguredKwargs(kwargs, is_tty)
    /\ pc' = "run"
    /\ UNCHANGED << is_tty, docker_daemon, images, caller_kwargs, shell_script,
                    run_config, error, success, container, force_kill,
                    sigint_handler, handlers, exit_status, thread, chunk_buffer, hist >>
    /\ UNCHANGED other_vars

\* lines 116-117: the container is created and started
ContainersRun ==
    /\ MainRuns /\ pc = "run"
    /\ IF GetDockerClientRaises(docker_daemon)
       THEN /\ error' = "MoreInfoError"
            /\ pc' = "raised"
            /\ UNCHANGED << container, run_config >>
       ELSE /\ error' = error
            /\ pc' = "install_handler"
            /\ container' = [state |-> "running", exit_code |-> -1]
            /\ run_config' = Append(run_config, kwargs)
    /\ UNCHANGED << is_tty, docker_daemon, images, caller_kwargs, kwargs,
                    shell_script, success, force_kill, sigint_handler, handlers,
                    exit_status, thread, chunk_buffer, hist >>
    /\ UNCHANGED other_vars

\* lines 119-138: force_kill = False; signal.signal(signal.SIGINT, signal_handler)
InstallHandler ==
    /\ MainRuns /\ pc = "install_handler"
    /\ force_kill' = FALSE
    /\ sigint_handler' = "signal_handler"
    /\ pc' = "start_thread"
    /\ UNCHANGED << is_tty, docker_daemon, images, caller_kwargs, kwargs,
                    shell_script, run_config, error, success, container,
                    handlers, exit_status, thread, chunk_buffer, hist >>
    /\ UNCHANGED other_vars

\* lines 168-170
ThreadStart ==
    /\ MainRuns /\ pc = "start_thread"
    /\ thread' = "loop"
    /\ pc' = "join"
    /\ UNCHANGED << is_tty, docker_daemon, images, caller_kwargs, kwargs,
                    shell_script, run_config, error, success, container,
                    force_kill, sigint_handler, handlers, exit_status,
                    chunk_buffer, hist >>
    /\ UNCHANGED other_vars

\* a variant in which the main control flow does not wait for the thread
ThreadIsAlive_Never(t) == FALSE

\* thread.is_alive()
ThreadIsAlive(t) == t \in {"loop", "send"}

\* lines 172-173: while thread.is_alive(): thread.join(0.1)
ThreadJoin ==
    /\ MainRuns /\ pc = "join"
    /\ ~ThreadIsAlive(thread)
    /\ pc' = "wait"
    /\ UNCHANGED << is_tty, docker_daemon, images, caller_kwargs, kwargs,
                    shell_script, run_config, error, success, container,
                    force_kill, sigint_handler, handlers, exit_status, thread,
                    chunk_buffer, hist >>
    /\ UNCHANGED other_vars

\* line 175: container.wait() returns once the container is not running
ContainerWait ==
    /\ MainRuns /\ pc = "wait"
    /\ container.state = "exited"
    /\ pc' = "reload"
    /\ UNCHANGED << is_tty, docker_daemon, images, caller_kwargs, kwargs,
                    shell_script, run_config, error, success, container,
                    force_kill, sigint_handler, handlers, exit_status, thread,
                    chunk_buffer, hist >>
    /\ UNCHANGED other_vars

\* lines 177-178
ReloadExitCode ==
    /\ MainRuns /\ pc = "reload"
    /\ success' = ExitSuccess(container.exit_code)
    /\ pc' = "remove"
    /\ UNCHANGED << is_tty, docker_daemon, images, caller_kwargs, kwargs,
                    shell_script, run_config, error, container, force_kill,
                    sigint_handler, handlers, exit_status, thread, chunk_buffer, hist >>
    /\ UNCHANGED other_vars

\* line 180
ContainerRemove ==
    /\ MainRuns /\ pc = "remove"
    /\ IF RemoveAllowed(container)
       THEN /\ container' = Removed(container)
            /\ pc' = "return"
            /\ error' = error
       ELSE /\ container' = container
            /\ pc' = "raised"
            /\ error' = "APIError"
    /\ UNCHANGED << is_tty, docker_daemon, images, caller_kwargs, kwargs,
                    shell_script, run_config, success, force_kill,
                    sigint_handler, handlers, exit_status, thread, chunk_buffer, hist >>
    /\ UNCHANGED other_vars

\* line 181
Return ==
    /\ MainRuns /\ pc = "return"
    /\ pc' = "returned"
    /\ UNCHANGED << is_tty, docker_daemon, images, caller_kwargs, kwargs,
                    shell_script, run_config, error, success, container,
                    force_kill, sigint_handler, handlers, exit_status, thread,
                    chunk_buffer, hist >>
    /\ UNCHANGED other_vars


(***************************************************************************)
(* SIGINT.  The signal is delivered while the process runs; Python calls   *)
(* the installed handler on the main thread, on top of whatever runs       *)
(* there.  With the default handler KeyboardInterrupt is raised instead.   *)
(***************************************************************************)
HandlerFrame(in_stop) ==
    [pc |-> "check", branch |-> "none", in_stop |-> in_stop, raised |-> "none"]

\* an invocation of the handler is blocked in container.stop(timeout=60)
StopInProgress == \E i \in 1..Len(handlers) : handlers[i].pc = "stopping"

Top == handlers[Len(handlers)]

SetTop(frame) == [handlers EXCEPT ![Len(handlers)] = frame]

Interrupt ==
    /\ Alive
    /\ hist.interrupts < MaxInterrupts
    /\ IF sigint_handler = "signal_handler"
       THEN /\ handlers' = Append(handlers, HandlerFrame(StopInProgress))
            /\ hist' = [hist EXCEPT !.interrupts = @ + 1, !.handled = @ + 1,
                                    !.during_run = @ \/ pc # "returned"]
            /\ UNCHANGED << error, pc >>
       ELSE /\ error' = "KeyboardInterrupt"
            /\ pc' = "raised"
            /\ hist' = [hist EXCEPT !.interrupts = @ + 1]
            /\ UNCHANGED handlers
    /\ UNCHANGED << is_tty, docker_daemon, images, caller_kwargs, kwargs,
                    shell_script, run_config, success, container, force_kill,
                    sigint_handler, exit_status, thread, chunk_buffer >>
    /\ UNCHANGED other_vars

\* the topmost invocation of signal_handler is at the given position
HandlerAt(position) == Alive /\ handlers # <<>> /\ Top.pc = position

\* line 125
HandlerCheck ==
    /\ HandlerAt("check")
    /\ handlers' = SetTop(IF HandlerKills(is_tty, force_kill, kwargs["stop_signal"])
                          THEN [Top EXCEPT !.pc = "kill", !.branch = "kill"]
                          ELSE [Top EXCEPT !.pc = "notice", !.branch = "stop"])
    /\ UNCHANGED << is_tty, docker_daemon, images, caller_kwargs, kwargs,
                    shell_script, run_config, pc, error, success, container,
                    force_kill, sigint_handler, exit_status, thread,
                    chunk_buffer, hist >>
    /\ UNCHANGED other_vars

\* line 126: container.kill(); an APIError leads to the finally clause
HandlerKill ==
    /\ HandlerAt("kill")
    /\ hist' = Requested([hist EXCEPT !.kills = @ + 1], "kill")
    /\ IF KillAllowed(container)
       THEN /\ container' = Exited(container, KilledExitCode)
            /\ handlers' = SetTop([Top EXCEPT !.pc = "remove"])
       ELSE /\ container' = container
            /\ handlers' = SetTop([Top EXCEPT !.pc = "exit", !.raised = "APIError"])
    /\ UNCHANGED << is_tty, docker_daemon, images, caller_kwargs, kwargs,
                    shell_script, run_config, pc, error, success, force_kill,
                    sigint_handler, exit_status, thread, chunk_buffer >>
    /\ UNCHANGED other_vars

\* line 128
HandlerNotice ==
    /\ HandlerAt("notice")
    /\ hist' = [hist EXCEPT !.notices = @ + 1]
    /\ handlers' = SetTop([Top EXCEPT !.pc = "set_flag"])
    /\ UNCHANGED << is_tty, docker_daemon, images, caller_kwargs, kwargs,
                    shell_script, run_config, pc, error, success, container,
                    force_kill, sigint_handler, exit_status, thread, chunk_buffer >>
    /\ UNCHANGED other_vars

\* line 129
HandlerSetFlag ==
    /\ HandlerAt("set_flag")
    /\ force_kill' = TRUE
    /\ handlers' = SetTop([Top EXCEPT !.pc = "stop"])
    /\ UNCHANGED << is_tty, docker_daemon, images, caller_kwargs, kwargs,
                    shell_script, run_config, pc, error, success, container,
                    sigint_handler, exit_status, thread, chunk_buffer, hist >>
    /\ UNCHANGED other_vars

\* line 130: container.stop(timeout=60) is requested; the call blocks until
\* the container has stopped
HandlerStop ==
    /\ HandlerAt("stop")
    /\ hist' = Requested([hist EXCEPT !.stops = Append(@, StopTimeout)], "stop")
    /\ handlers' = SetTop(IF StopAllowed(container)
                          THEN [Top EXCEPT !.pc = "stopping"]
                          ELSE [Top EXCEPT !.pc = "exit", !.raised = "APIError"])
    /\ UNCHANGED << is_tty, docker_daemon, images, caller_kwargs, kwargs,
                    shell_script, run_config, pc, error, success, container,
                    force_kill, sigint_handler, exit_status, thread, chunk_buffer >>
    /\ UNCHANGED other_vars

\* a variant of container.stop without the timeout: the call returns only
\* when the process in the container has ended by itself
HandlerStopReturns_NoTimeout ==
    /\ HandlerAt("stopping")
    /\ container.state # "running"
    /\ container' = container
    /\ handlers' = SetTop([Top EXCEPT !.pc = "remove"])
    /\ UNCHANGED << is_tty, docker_daemon, images, caller_kwargs, kwargs,
                    shell_script, run_config, pc, error, success, force_kill,
                    sigint_handler, exit_status, thread, chunk_buffer, hist >>
    /\ UNCHANGED other_vars

\* line 130: container.stop returns: the process in the container ended on
\* the stop signal, or the daemon killed it when the timeout expired
HandlerStopReturns ==
    /\ HandlerAt("stopping")
    /\ \E code \in ExitCodes \cup {KilledExitCode} :
        container' = IF container.state = "running"
                     THEN Exited(container, code) ELSE container
    /\ handlers' = SetTop([Top EXCEPT !.pc = "remove"])
    /\ UNCHANGED << is_tty, docker_daemon, images, caller_kwargs, kwargs,
                    shell_script, run_config, pc, error, success, force_kill,
                    sigint_handler, exit_status, thread, chunk_buffer, hist >>
    /\ UNCHANGED other_vars

\* line 132: container.remove(); lines 133-134 swallow an APIError
HandlerRemove ==
    /\ HandlerAt("remove")
    /\ container' = IF RemoveAllowed(container) THEN Removed(container) ELSE container
    /\ handlers' = SetTop(IF RemoveAllowed(container)
                          THEN [Top EXCEPT !.pc = "exit"]
                          ELSE [Top EXCEPT !.pc = "exit", !.raised = "APIError"])
    /\ hist' = Requested(hist, "remove")
    /\ UNCHANGED << is_tty, docker_daemon, images, caller_kwargs, kwargs,
                    shell_script, run_config, pc, error, success, force_kill,
                    sigint_handler, exit_status, thread, chunk_buffer >>
    /\ UNCHANGED other_vars

\* a variant without the finally clause: the handler returns to the code
\* it interrupted
HandlerExit_Resumes ==
    /\ HandlerAt("exit")
    /\ handlers' = SubSeq(handlers, 1, Len(handlers) - 1)
    /\ UNCHANGED << is_tty, docker_daemon, images, caller_kwargs, kwargs,
                    shell_script, run_config, pc, error, success, container,
                    force_kill, sigint_handler, exit_status, thread, chunk_buffer, hist >>
    /\ UNCHANGED other_vars

\* a variant without lines 133-136: an error of the client leaves the
\* handler and reaches the code it interrupted
HandlerExit_Propagates ==
    /\ HandlerAt("exit")
    /\ IF Top.raised = "none"
       THEN /\ exit_status' = 1
            /\ UNCHANGED << error, pc >>
       ELSE /\ error' = Top.raised
            /\ pc' = "raised"
            /\ UNCHANGED exit_status
    /\ UNCHANGED << is_tty, docker_daemon, images, caller_kwargs, kwargs,
                    shell_script, run_config, success, container,
                    force_kill, sigint_handler, handlers, thread, chunk_buffer, hist >>
    /\ UNCHANGED other_vars

\* lines 135-136: finally: sys.exit(1).  SystemExit unwinds the main thread;
\* every interrupted invocation of the handler it passes through is inside
\* its try statement and runs the same finally clause.
HandlerExit ==
    /\ HandlerAt("exit")
    /\ exit_status' = 1
    /\ UNCHANGED << is_tty, docker_daemon, images, caller_kwargs, kwargs,
                    shell_script, run_config, pc, error, success, container,
                    force_kill, sigint_handler, handlers, thread, chunk_buffer, hist >>
    /\ UNCHANGED other_vars

(***************************************************************************)
(* The thread print_logs, lines 142-166.  It is a daemon thread: it ends   *)
(* with the process.                                                       *)
(***************************************************************************)
\* lines 146-163: one iteration of the loop over container.logs(stream=True,
\* follow=True), for a chunk the running container writes
LogsChunk ==
    /\ Alive /\ thread = "loop"
    /\ container.state = "running"
    /\ hist.chunks < MaxChunks
    /\ \E chunk \in Chunks :
        LET buffered == chunk_buffer \o chunk
        IN  IF ~EndsWithNewline(buffered)
            THEN /\ chunk_buffer' = buffered
                 /\ thread' = thread
                 /\ hist' = Recorded([hist EXCEPT !.chunks = @ + 1], chunk, FALSE, <<>>)
            ELSE /\ chunk_buffer' = <<>>
                 /\ thread' = IF SendsNewline(is_tty, buffered) THEN "send" ELSE thread
                 /\ hist' = Recorded([hist EXCEPT !.chunks = @ + 1,
                                                  !.sentinel_units =
                                                      IF ContainsSentinel(buffered)
                                                      THEN @ + 1 ELSE @,
                                                  !.sentinel_lines =
                                                      @ + SentinelLines(buffered, <<>>)],
                                      chunk, TRUE, buffered)
    /\ UNCHANGED << is_tty, docker_daemon, images, caller_kwargs, kwargs,
                    shell_script, run_config, pc, error, success, container,
                    force_kill, sigint_handler, handlers, exit_status >>
    /\ UNCHANGED other_vars

\* a variant of lines 164-166 that also sets the flag of the handler
LogsSend_SetsFlag ==
    /\ Alive /\ thread = "send"
    /\ hist' = [hist EXCEPT !.stdin_writes = @ + 1]
    /\ thread' = "loop"
    /\ force_kill' = TRUE
    /\ UNCHANGED << is_tty, docker_daemon, images, caller_kwargs, kwargs,
                    shell_script, run_config, pc, error, success, container,
                    sigint_handler, handlers, exit_status, chunk_buffer >>
    /\ UNCHANGED other_vars

\* lines 164-166: attach_socket, send(b"\n"), close
LogsSend ==
    /\ Alive /\ thread = "send"
    /\ hist' = Requested([hist EXCEPT !.stdin_writes = @ + 1], "send")
    /\ thread' = "loop"
    /\ UNCHANGED << is_tty, docker_daemon, images, caller_kwargs, kwargs,
                    shell_script, run_config, pc, error, success, container,
                    force_kill, sigint_handler, handlers, exit_status, chunk_buffer >>
    /\ UNCHANGED other_vars

\* line 146: the stream of a container that is not running is closed: the
\* loop ends and with it the thread
LogsClosed ==
    /\ Alive /\ thread = "loop"
    /\ container.state # "running"
    /\ thread' = "done"
    /\ UNCHANGED << is_tty, docker_daemon, images, caller_kwargs, kwargs,
                    shell_script, run_config, pc, error, success, container,
                    force_kill, sigint_handler, handlers, exit_status,
                    chunk_buffer, hist >>
    /\ UNCHANGED other_vars

(***************************************************************************)
(* The process in the container ends by itself.                            *)
(***************************************************************************)
ContainerExits ==
    /\ container.state = "running"
    /\ \E code \in ExitCodes : container' = Exited(container, code)
    /\ UNCHANGED << is_tty, docker_daemon, images, caller_kwargs, kwargs,
                    shell_script, run_config, pc, error, success, force_kill,
                    sigint_handler, handlers, exit_status, thread, chunk_buffer, hist >>
    /\ UNCHANGED other_vars

Next ==
    \/ ImageInstalledCheck
    \/ PullImage
    \/ StageCommands
    \/ Configure
    \/ ContainersRun
    \/ InstallHandler
    \/ ThreadStart
    \/ ThreadJoin
    \/ ContainerWait
    \/ ReloadExitCode
    \/ ContainerRemove
    \/ Return
    \/ Interrupt
    \/ HandlerCheck
    \/ HandlerKill
    \/ HandlerNotice
    \/ HandlerSetFlag
    \/ HandlerStop
    \/ HandlerStopReturns
    \/ HandlerRemove
    \/ HandlerExit
    \/ LogsChunk
    \/ LogsSend
    \/ LogsClosed
    \/ ContainerExits

Spec == Init /\ [][Next]_vars

(***************************************************************************)
(* The run under the scheduling of the interpreter, for its termination.   *)
(* The daemon is reachable and has the image; the caller passes a stop     *)
(* signal or none.  The main thread executes its next statement unless it  *)
(* is blocked (in thread.join by the living thread, in container.wait by   *)
(* the running container) or an invocation of the handler runs on top of   *)
(* it; the topmost invocation of the handler executes its next statement;  *)
(* the thread finishes the write it started.  container.stop(timeout=60)   *)
(* returns: the daemon kills the container when the timeout expires.       *)
(* Nothing is assumed of the signals, of the end of the process in the     *)
(* container or of the closing of its output stream.  The container        *)
(* writes nothing: the thread waits for the stream to close.               *)
(***************************************************************************)
InitTermination ==
    /\ is_tty \in BOOLEAN
    /\ docker_daemon = "running"
    /\ images = {{OtherImageName}, {ImageName}}
    /\ caller_kwargs \in {EmptyDict} \cup { "stop_signal" :> sig : sig \in StopSignals }
    /\ kwargs = caller_kwargs
    /\ shell_script = <<>>
    /\ run_config = <<>>
    /\ pc = "image_installed"
    /\ error = "none"
    /\ success = FALSE
    /\ container = NoContainer
    /\ force_kill = FALSE
    /\ sigint_handler = "default"
    /\ handlers = <<>>
    /\ exit_status = -1
    /\ thread = "unstarted"
    /\ chunk_buffer = <<>>
    /\ hist = [NoHistory EXCEPT !.installed = TRUE]
    /\ VolumesIdle
    /\ CommandsIdle

MainSteps ==
    \/ ImageInstalledCheck
    \/ StageCommands
    \/ Configure
    \/ ContainersRun
    \/ InstallHandler
    \/ ThreadStart
    \/ ThreadJoin
    \/ ContainerWait
    \/ ReloadExitCode
    \/ ContainerRemove
    \/ Return

HandlerSteps ==
    \/ HandlerCheck
    \/ HandlerKill
    \/ HandlerNotice
    \/ HandlerSetFlag
    \/ HandlerStop
    \/ HandlerRemove
    \/ HandlerExit

NextTermination ==
    \/ MainSteps
    \/ HandlerSteps
    \/ HandlerStopReturns
    \/ Interrupt
    \/ LogsClosed
    \/ ContainerExits

Scheduling == WF_vars(MainSteps \/ HandlerSteps \/ HandlerStopReturns)

SpecTermination == InitTermination /\ [][NextTermination]_vars /\ Scheduling

(***************************************************************************)
(* The run without a signal, for the output of the container: the history  *)
(* of the bytes read and of the units forwarded is kept.                   *)
(***************************************************************************)
InitLogs ==
    /\ is_tty \in BOOLEAN
    /\ docker_daemon = "running"
    /\ images \in LocalImageLists
    /\ caller_kwargs = EmptyDict
    /\ kwargs = caller_kwargs
    /\ shell_script = <<>>
    /\ run_config = <<>>
    /\ pc = "image_installed"
    /\ error = "none"
    /\ success = FALSE
    /\ container = NoContainer
    /\ force_kill = FALSE
    /\ sigint_handler = "default"
    /\ handlers = <<>>
    /\ exit_status = -1
    /\ thread = "unstarted"
    /\ chunk_buffer = <<>>
    /\ hist = [NoHistory EXCEPT !.installed = \E x \in images : ImageName \in x,
                                !.record = TRUE]
    /\ VolumesIdle
    /\ CommandsIdle

NextLogs ==
    \/ ImageInstalledCheck
    \/ PullImage
    \/ StageCommands
    \/ Configure
    \/ ContainersRun
    \/ InstallHandler
    \/ ThreadStart
    \/ ThreadJoin
    \/ ContainerWait
    \/ ReloadExitCode
    \/ ContainerRemove
    \/ Return
    \/ LogsChunk
    \/ LogsSend
    \/ LogsClosed
    \/ ContainerExits

SpecLogs == InitLogs /\ [][NextLogs]_vars

(***************************************************************************)
(* The configuration of the container, lines 88-117: the run from the call *)
(* to docker_client.containers.run, for callers that pass any of the       *)
(* keyword arguments the code reads or writes.  No signal arrives.         *)
(***************************************************************************)
\* a mount of the caller
DataMount == [target |-> "/Data", source |-> "data", type |-> "bind"]

\* the dicts that hold the key with one of the values, or do not hold it
Optional(key, values) == {EmptyDict} \cup { key :> v : v \in values }

\* the **kwargs of the callers
ConfigKwargs ==
    { c @@ e @@ m @@ o @@ d @@ t @@ i @@ s :
        c \in Optional("commands", { <<>>, <<"echo hi", "echo bye">> }),
        e \in Optional("entrypoint", { <<"python">> }),
        m \in Optional("mounts", { <<>>, <<DataMount>> }),
        o \in Optional("on_output", { "callback" }),
        d \in Optional("detach", { FALSE }),
        t \in Optional("tty", BOOLEAN),
        i \in Optional("stdin_open", { TRUE }),
        s \in Optional("stop_signal", { "SIGTERM" }) }

InitConfig ==
    /\ is_tty \in BOOLEAN
    /\ docker_daemon \in DaemonStates
    /\ images \in LocalImageLists
    /\ caller_kwargs \in ConfigKwargs
    /\ kwargs = caller_kwargs
    /\ shell_script = <<>>
    /\ run_config = <<>>
    /\ pc = "image_installed"
    /\ error = "none"
    /\ success = FALSE
    /\ container = NoContainer
    /\ force_kill = FALSE
    /\ sigint_handler = "default"
    /\ handlers = <<>>
    /\ exit_status = -1
    /\ thread = "unstarted"
    /\ chunk_buffer = <<>>
    /\ hist = [NoHistory EXCEPT !.installed = \E x \in images : ImageName \in x]
    /\ VolumesIdle
    /\ CommandsIdle

NextConfig ==
    \/ ImageInstalledCheck
    \/ PullImage
    \/ StageCommands
    \/ Configure
    \/ ContainersRun

SpecConfig == InitConfig /\ [][NextConfig]_vars


(***************************************************************************)
(* Properties of run_image.                                                *)
(***************************************************************************)
\* the stop signal the caller configured, SIGKILL when it gave none
CallerStopSignalIsKill ==
    ~("stop_signal" \in DOMAIN caller_kwargs) \/ caller_kwargs["stop_signal"] = "SIGKILL"

\* C1: when run_image has returned, its result is true exactly if the exit
\* code of the container is 0, and the container has been removed.
C1_ResultIsExitCodeZero ==
    pc = "returned" =>
        /\ success = (container.exit_code = 0)
        /\ container.state = "removed"

C1_Witness ==
    /\ pc = "returned"
    /\ hist.interrupts = 0
    /\ container.exit_code = 137
    /\ success = FALSE
    /\ container.state = "removed"

\* C2: in every state in which the run has ended after the container was
\* created (run_image returned, or an interrupt ended the process), the
\* container has been removed.
C2_RemovedOnEveryExit ==
    (/\ container.state # "none"
     /\ \/ pc = "returned"
        \/ exit_status # -1
        \/ error = "KeyboardInterrupt")
    => container.state = "removed"

\* C3: when the process has exited after a single interrupt, delivered while
\* standard output is a terminal and the stop signal is not SIGKILL, the
\* notice was emitted once, the flag is set, one stop with timeout 60 and no
\* kill were issued, the container is removed and the exit status is 1.
C3_GracefulStopOnFirstInterrupt ==
    (/\ exit_status # -1
     /\ hist.interrupts = 1
     /\ is_tty
     /\ kwargs["stop_signal"] # "SIGKILL")
    => /\ hist.notices = 1
       /\ force_kill
       /\ hist.stops = <<60>>
       /\ hist.kills = 0
       /\ container.state = "removed"
       /\ exit_status = 1

C3_Witness ==
    /\ exit_status = 1
    /\ hist.interrupts = 1
    /\ hist.during_run
    /\ is_tty
    /\ kwargs["stop_signal"] = "SIGTERM"
    /\ hist.stops = <<60>>
    /\ container.state = "removed"

\* C4: an invocation of the handler that began while an earlier invocation
\* was blocked in the graceful stop never takes the graceful branch: once
\* past the test it has taken the kill branch, once past the kill it has
\* issued it; and the process exits with status 1 only.
C4_SecondInterruptKills ==
    /\ \A i \in 1..Len(handlers) :
          handlers[i].in_stop =>
              /\ handlers[i].branch \in {"none", "kill"}
              /\ handlers[i].pc \in {"check", "kill", "remove", "exit"}
              /\ handlers[i].pc \in {"remove", "exit"} => hist.kills >= 1
    /\ exit_status \in {-1, 1}

C4_Witness ==
    /\ Len(handlers) = 2
    /\ handlers[1].pc = "stopping"
    /\ handlers[2].in_stop
    /\ handlers[2].branch = "kill"
    /\ hist.kills = 1
    /\ hist.stops = <<60>>
    /\ exit_status = 1

\* C5: while standard output is not a terminal, or the caller's stop signal
\* is SIGKILL or absent, no notice is emitted, no stop is issued, the flag
\* stays false and every invocation of the handler takes the kill branch.
C5_HardKillWhenNotInteractiveOrSigkill ==
    (~is_tty \/ CallerStopSignalIsKill) =>
        /\ hist.notices = 0
        /\ hist.stops = <<>>
        /\ ~force_kill
        /\ \A i \in 1..Len(handlers) :
              /\ handlers[i].branch \in {"none", "kill"}
              /\ handlers[i].pc \in {"check", "kill", "remove", "exit"}
              /\ handlers[i].pc \in {"remove", "exit"} => hist.kills >= 1

C5_Witness ==
    /\ is_tty
    /\ ~("stop_signal" \in DOMAIN caller_kwargs)
    /\ hist.during_run
    /\ hist.kills = 1
    /\ container.state = "removed"
    /\ exit_status = 1

\* C6: once the handler was entered before run_image returned, run_image
\* has not returned and does not raise, and the process is running its
\* handler or has exited with status 1.
C6_NoReturnAfterInterrupt ==
    hist.during_run =>
        /\ pc # "returned"
        /\ error = "none"
        /\ exit_status \in {-1, 1}
        /\ exit_status = -1 => handlers # <<>>

C6_Witness ==
    /\ hist.during_run
    /\ hist.interrupts = 2
    /\ container.exit_code = 0
    /\ exit_status = 1

\* C7: the main control flow is at or past container.wait() only when the
\* thread print_logs has ended, which it does only when the output stream
\* of the container is closed.
C7_ExitCodeAfterLogs ==
    /\ pc \in {"wait", "reload", "remove", "return", "returned"} => thread = "done"
    /\ thread = "done" => container.state \in {"exited", "removed"}

C7_Witness ==
    /\ pc = "reload"
    /\ thread = "done"
    /\ hist.chunks = 2

\* C8: at most one pull; none when the image is installed; when it is not,
\* the main control flow is past the pull only after one pull that
\* succeeded, in particular whenever a container exists.
C8_PullOnceBeforeRun ==
    /\ hist.pulls <= 1
    /\ hist.installed => hist.pulls = 0
    /\ (~hist.installed /\ pc \notin {"image_installed", "pull", "raised"})
           => hist.pulls = 1 /\ hist.pull_returncode = 0
    /\ (~hist.installed /\ container.state # "none")
           => hist.pulls = 1 /\ hist.pull_returncode = 0

C8_Witness ==
    /\ ~hist.installed
    /\ hist.pulls = 1
    /\ container.state = "running"

\* C9: after a pull that ended with a non-zero status, run_image has raised
\* RuntimeError, and no script is written, no container is created, the
\* handler is not installed and the thread is not started.
C9_PullFailureAborts ==
    hist.pull_returncode \notin {-1, 0} =>
        /\ pc = "raised"
        /\ error = "RuntimeError"
        /\ shell_script = <<>>
        /\ run_config = <<>>
        /\ container.state = "none"
        /\ sigint_handler = "default"
        /\ thread = "unstarted"

C9_Witness ==
    /\ hist.pull_returncode = 1
    /\ error = "RuntimeError"
    /\ "commands" \in DOMAIN caller_kwargs

\* the writes to the input stream, the one print_logs is about to make included
StdinWrites == hist.stdin_writes + (IF thread = "send" THEN 1 ELSE 0)

C17_HandlerUninstalledAfterReturn ==
    pc = "returned" =>
        /\ sigint_handler # "signal_handler"
        /\ handlers = <<>>

\* invocations of the handler in which a call of the client raised
TeardownErrors == { i \in 1..Len(handlers) : handlers[i].raised # "none" }

\* C18: an error the client raises in the handler (from kill, stop or
\* remove) never reaches the caller: no exception leaves run_image, the
\* invocation goes on to sys.exit(1), and the only exit status the process
\* ends with is 1.
C18_TeardownErrorsSwallowed ==
    TeardownErrors # {} =>
        /\ error = "none"
        /\ exit_status \in {-1, 1}
        /\ \A i \in TeardownErrors : handlers[i].pc = "exit"

\* kill was refused (the container had exited) and the process ended with 1
C18_Witness ==
    /\ TeardownErrors # {}
    /\ hist.kills > 0
    /\ container.state = "exited"
    /\ exit_status = 1


(***************************************************************************)
(* create_site_packages_volume, lines 226-260.                             *)
(*                                                                         *)
(* A volume is a record of its name and its creation time.  A name is a    *)
(* sequence of tokens, its first token the prefix of its family.  The      *)
(* daemon lists the volumes in the order of the sequence volumes.          *)
(***************************************************************************)
SitePackagesPrefix == "lean_cli_python_"

StartsWith(name, prefix) == Len(name) >= 1 /\ name[1] = prefix

\* Requirement.parse(line) followed by str(): the canonical text of the
\* requirement, or ValueError for a line that is no requirement
ValueError == "ValueError"

ParseRequirement(line) ==
    CASE line = "numpy" -> "numpy"
      [] line = "numpy " -> "numpy"
      [] line = "pandas==1.0" -> "pandas==1.0"
      [] line = "pandas == 1.0" -> "pandas==1.0"
      [] OTHER -> ValueError

RequirementLines == {"numpy", "numpy ", "pandas==1.0", "pandas == 1.0", "", "# comment"}

\* the order of Python's strings on the canonical texts
RequirementOrder == <<"numpy", "pandas==1.0">>

\* lines 235-240: the canonical texts of the lines that parse, in file order
RECURSIVE ParsedRequirements(_)
ParsedRequirements(lines) ==
    IF lines = <<>> THEN <<>>
    ELSE LET requirement == ParseRequirement(Head(lines))
         IN  IF requirement = ValueError
             THEN ParsedRequirements(Tail(lines))
             ELSE <<requirement>> \o ParsedRequirements(Tail(lines))

\* first occurrences only, in the order of the sequence
RECURSIVE Distinct(_)
Distinct(seq) ==
    IF seq = <<>> THEN <<>>
    ELSE LET front == Distinct(SubSeq(seq, 1, Len(seq) - 1))
             last == seq[Len(seq)]
         IN  IF \E i \in 1..Len(front) : front[i] = last THEN front ELSE Append(front, last)

\* sorted(set(requirements)), line 241
SortedSet_KeepsFileOrder(requirements) == Distinct(requirements)

SortedSet(requirements) ==
    LET texts == { requirements[i] : i \in 1..Len(requirements) }
    IN  SelectSeq(RequirementOrder, LAMBDA text : text \in texts)

\* hashlib.md5(...).hexdigest(), line 244: a collision is out of reach, so
\* the digest is the text it was computed from, marked as a digest
Md5HexDigest(text) == <<"md5(">> \o text \o <<")">>

\* lines 235-245
RequiredVolume(lines) ==
    <<SitePackagesPrefix>> \o Md5HexDigest(JoinLines(SortedSet(ParsedRequirements(lines))))

\* line 250
ExistingVolumes_AnyFamily(vols) == vols

ExistingVolumes(vols) == SelectSeq(vols, LAMBDA v : StartsWith(v.name, SitePackagesPrefix))

\* line 252
CacheHit_Never(required, existing) == FALSE

CacheHit(required, existing) == \E i \in 1..Len(existing) : existing[i].name = required

\* sorted(existing_volumes, key=created), line 255: a stable insertion
\* sort, the volumes of one creation time keep the order of the list
RECURSIVE Insert(_, _)
Insert(sorted, v) ==
    IF sorted = <<>> THEN <<v>>
    ELSE IF sorted[Len(sorted)].created <= v.created
         THEN Append(sorted, v)
         ELSE Append(Insert(SubSeq(sorted, 1, Len(sorted) - 1), v), sorted[Len(sorted)])

RECURSIVE VolumesByAge_NewestFirst(_)
VolumesByAge_NewestFirst(existing) ==
    IF existing = <<>> THEN <<>>
    ELSE <<existing[Len(existing)]>> \o VolumesByAge_NewestFirst(SubSeq(existing, 1, Len(existing) - 1))

RECURSIVE VolumesByAge(_)
VolumesByAge(existing) ==
    IF existing = <<>> THEN <<>>
    ELSE Insert(VolumesByAge(SubSeq(existing, 1, Len(existing) - 1)), existing[Len(existing)])

\* the range of line 256: how many volumes the loop removes
RemoveCount_NoRoom(count, limit) == count - limit

RemoveCount(count, limit) == (count - limit) + 1

\* the daemon stamps a new volume with the current time, later than the
\* creation of every volume there is
Now(vols) ==
    LET times == { vols[i].created : i \in 1..Len(vols) } \cup {0}
    IN  1 + CHOOSE t \in times : \A u \in times : u <= t

(***************************************************************************)
(* One call of create_site_packages_volume on a requirements file with the *)
(* given lines.  The variable vol_hist is a history variable: the volumes  *)
(* before the call, and the file and the result of the call before it.     *)
(* Two calls are followed, so that the results of two files meet.          *)
(***************************************************************************)
CreateSitePackagesVolume(lines) ==
    /\ pc = "idle"
    /\ vol_hist.calls < 2
    /\ ~GetDockerClientRaises(docker_daemon)
    /\ LET required == RequiredVolume(lines)
           existing == ExistingVolumes(volumes)
       IN  /\ required_volume' = required
           /\ IF CacheHit(required, existing)
              THEN volumes' = volumes
              ELSE LET by_age == VolumesByAge(existing)
                       n == RemoveCount(Len(by_age), volume_limit)
                       removed == { by_age[i].name : i \in 1..n }
                       kept == SelectSeq(volumes, LAMBDA v : v.name \notin removed)
                   IN  volumes' = Append(kept, [name |-> required, created |-> Now(volumes)])
    /\ requirements_file' = lines
    /\ vol_hist' = [calls |-> vol_hist.calls + 1,
                    before |-> volumes,
                    prev_file |-> requirements_file,
                    prev_volume |-> required_volume,
                    name |-> <<>>]
    /\ UNCHANGED << run_vars, volume_limit, command_vars >>

\* run_image is not running
RunIdle ==
    /\ is_tty = FALSE
    /\ docker_daemon = "running"
    /\ images = {}
    /\ caller_kwargs = EmptyDict
    /\ kwargs = EmptyDict
    /\ shell_script = <<>>
    /\ run_config = <<>>
    /\ pc = "idle"
    /\ error = "none"
    /\ success = FALSE
    /\ container = NoContainer
    /\ force_kill = FALSE
    /\ sigint_handler = "default"
    /\ handlers = <<>>
    /\ exit_status = -1
    /\ thread = "unstarted"
    /\ chunk_buffer = <<>>
    /\ hist = NoHistory

\* the requirements files of the user's projects
ProjectRequirements ==
    { <<>>, <<"numpy">>, <<"pandas==1.0">>, <<"pandas == 1.0", "# comment", "numpy">> }

\* every requirements file of at most MaxLines lines
RequirementsFiles == UNION { [1..n -> RequirementLines] : n \in 0..MaxLines }

\* the names of the volumes there are before the first call: four of the
\* family (one of them made by hand) and one of another family
VolumeNames ==
    { RequiredVolume(<<>>), RequiredVolume(<<"numpy">>),
      RequiredVolume(<<"numpy", "pandas==1.0">>),
      <<SitePackagesPrefix, "scratch">>, <<"lean_cli_", "cache">> }

CreationTimes == {1, 2}

\* the lists of at most MaxVolumes volumes, no two of one name
VolumeLists ==
    { vols \in UNION { [1..n -> [name : VolumeNames, created : CreationTimes]] : n \in 0..MaxVolumes } :
        \A i, j \in 1..Len(vols) : vols[i].name = vols[j].name => i = j }

InitVolumes ==
    /\ RunIdle
    /\ volumes \in VolumeLists
    /\ volume_limit \in 1..MaxVolumeLimit
    /\ requirements_file = <<>>
    /\ required_volume = <<>>
    /\ vol_hist = NoVolumeHistory
    /\ CommandsIdle

NextVolumes == \E lines \in ProjectRequirements : CreateSitePackagesVolume(lines)

SpecVolumes == InitVolumes /\ [][NextVolumes]_vars

\* no volume yet, and the requirements files are all there are
InitRequirements ==
    /\ RunIdle
    /\ volumes = <<>>
    /\ volume_limit = MaxVolumeLimit
    /\ requirements_file = <<>>
    /\ required_volume = <<>>
    /\ vol_hist = NoVolumeHistory
    /\ CommandsIdle

NextRequirements == \E lines \in RequirementsFiles : CreateSitePackagesVolume(lines)

SpecRequirements == InitRequirements /\ [][NextRequirements]_vars


(***************************************************************************)
(* create_volume, lines 217-224.  In vol_hist, name is the name given to   *)
(* the call and prev_volume the name given to the call before it.          *)
(***************************************************************************)
\* a variant of line 223 that finds no volume
VolumeExists_Never(name, vols) == FALSE

\* line 223: any(v.name == name for v in docker_client.volumes.list())
VolumeExists(name, vols) == \E i \in 1..Len(vols) : vols[i].name = name

CreateVolume(name) ==
    /\ pc = "idle"
    /\ vol_hist.calls < 2
    /\ ~GetDockerClientRaises(docker_daemon)
    /\ volumes' = IF VolumeExists(name, volumes)
                  THEN volumes
                  ELSE Append(volumes, [name |-> name, created |-> Now(volumes)])
    /\ vol_hist' = [calls |-> vol_hist.calls + 1,
                    before |-> volumes,
                    prev_file |-> <<>>,
                    prev_volume |-> vol_hist.name,
                    name |-> name]
    /\ UNCHANGED << run_vars, volume_limit, requirements_file, required_volume, command_vars >>

\* the names the callers give: one that may exist and one that does not
CreatedNames == { <<"lean_cli_", "cache">>, <<"lean_cli_", "nuget">> }

NextCreateVolume == \E name \in CreatedNames : CreateVolume(name)

SpecCreateVolume == InitVolumes /\ [][NextCreateVolume]_vars


(***************************************************************************)
(* The command pull, src/lean/commands/cloud/pull.py.  A project is a      *)
(* record of its id and its name; a name and the text of an option are     *)
(* sequences of tokens, so that a prefix is a first token.  The variable   *)
(* pull_cmd holds the options, the projects of the cloud and, after the    *)
(* command, the projects handed to pull_projects.                          *)
(***************************************************************************)
BootCampPrefix == "Boot Camp/"

\* the projects the cloud may hold
CloudProjects ==
    { [id |-> 1, name |-> <<"My Strategy">>],
      [id |-> 2, name |-> <<"Boot Camp/", "Buy and Hold">>],
      [id |-> 3, name |-> <<"Boot Camp">>],
      [id |-> 4, name |-> <<"Library/", "Boot Camp/", "Momentum">>] }

\* api_client.projects.get_all(): lists of at most MaxProjects projects
ProjectLists ==
    { all \in UNION { [1..n -> CloudProjects] : n \in 0..MaxProjects } :
        \A i, j \in 1..Len(all) : all[i].id = all[j].id => i = j }

\* --project: not given, or a text
NoProject == [given |-> FALSE, text |-> <<>>]

ProjectOptions ==
    {NoProject} \cup
    { [given |-> TRUE, text |-> t] :
        t \in { <<"1">>, <<"2">>, <<"0">>, <<"My Strategy">>, <<"Boot Camp/", "Buy and Hold">> } }

\* int(project), lines 34-38: the number, or no number on ValueError
Numerals == <<"0", "1", "2", "3", "4">>

IsNumeral(text) == Len(text) = 1 /\ \E i \in 1..Len(Numerals) : Numerals[i] = text[1]

ParseInt(text) == (CHOOSE i \in 1..Len(Numerals) : Numerals[i] = text[1]) - 1

\* lines 33-38 and "project_id or project" of line 43: what the projects are
\* looked up by
LookupKey(project) ==
    IF ~project.given THEN [kind |-> "none", id |-> 0, name |-> <<>>]
    ELSE IF IsNumeral(project.text) /\ ParseInt(project.text) # 0
         THEN [kind |-> "id", id |-> ParseInt(project.text), name |-> <<>>]
         ELSE [kind |-> "name", id |-> 0, name |-> project.text]

\* project_manager.get_projects_by_name_or_id: every project for no key, the
\* projects of the id or of the name otherwise, an error if there is none
GetProjectsByNameOrId(all, key) ==
    LET found == IF key.kind = "none" THEN all
                 ELSE IF key.kind = "id" THEN SelectSeq(all, LAMBDA p : p.id = key.id)
                 ELSE SelectSeq(all, LAMBDA p : p.name = key.name)
    IN  [raised |-> key.kind # "none" /\ found = <<>>, projects |-> found]

\* a variant of line 45 that does not look at --project
FiltersBootCamp_IgnoresProject(project, pull_bootcamp) == ~pull_bootcamp

\* line 45: project is None and not pull_bootcamp
FiltersBootCamp(project, pull_bootcamp) == ~project.given /\ ~pull_bootcamp

\* line 46
WithoutBootCamp(projects) ==
    SelectSeq(projects, LAMBDA p : ~StartsWith(p.name, BootCampPrefix))

\* the command pull, lines 22-49
Pull ==
    /\ pull_cmd.state = "invoked"
    /\ LET selected == GetProjectsByNameOrId(pull_cmd.all_projects, LookupKey(pull_cmd.project))
       IN  IF selected.raised
           THEN pull_cmd' = [pull_cmd EXCEPT !.state = "raised"]
           ELSE pull_cmd' = [pull_cmd EXCEPT
                                !.state = "pulled",
                                !.pulled = IF FiltersBootCamp(pull_cmd.project, pull_cmd.pull_bootcamp)
                                           THEN WithoutBootCamp(selected.projects)
                                           ELSE selected.projects]
    /\ UNCHANGED << run_vars, volume_vars, image_ref >>

InitPull ==
    /\ RunIdle
    /\ VolumesIdle
    /\ image_ref = NoImage
    /\ \E project \in ProjectOptions, pull_bootcamp \in BOOLEAN, all \in ProjectLists :
          pull_cmd = [state |-> "invoked", project |-> project,
                      pull_bootcamp |-> pull_bootcamp, all_projects |-> all, pulled |-> <<>>]

NextPull == Pull

SpecPull == InitPull /\ [][NextPull]_vars


(***************************************************************************)
(* The image references, DockerImage of lean.models.docker: parse and      *)
(* str.  A text is a sequence of characters.  The variable image_ref holds *)
(* a text and, once it is parsed, the name, the tag and their rendering.   *)
(***************************************************************************)
ImageCharacters == {"a", "/", ":"}

ImageTexts == UNION { [1..n -> ImageCharacters] : n \in 0..MaxImageLen }

Latest == <<"l", "a", "t", "e", "s", "t">>

\* the positions of the colons of a text
Colons(text) == { i \in 1..Len(text) : text[i] = ":" }

\* a variant of parse with an empty default tag
ParseImage_NoDefaultTag(text) ==
    IF Colons(text) = {} THEN [name |-> text, tag |-> <<>>]
    ELSE LET last == CHOOSE i \in Colons(text) : \A j \in Colons(text) : j <= i
         IN  [name |-> SubSeq(text, 1, last - 1), tag |-> SubSeq(text, last + 1, Len(text))]

\* parse: the text is split at its last colon; without a colon the text is
\* the name and the tag is latest
ParseImage(text) ==
    IF Colons(text) = {} THEN [name |-> text, tag |-> Latest]
    ELSE LET last == CHOOSE i \in Colons(text) : \A j \in Colons(text) : j <= i
         IN  [name |-> SubSeq(text, 1, last - 1), tag |-> SubSeq(text, last + 1, Len(text))]

\* str: name:tag
ImageToString(image) == image.name \o <<":">> \o image.tag

ParseAndRender ==
    /\ image_ref.state = "text"
    /\ LET image == ParseImage(image_ref.text)
       IN  image_ref' = [state |-> "parsed", text |-> image_ref.text,
                         name |-> image.name, tag |-> image.tag,
                         rendered |-> ImageToString(image)]
    /\ UNCHANGED << run_vars, volume_vars, pull_cmd >>

InitImages ==
    /\ RunIdle
    /\ VolumesIdle
    /\ pull_cmd = NoPull
    /\ \E text \in ImageTexts :
          image_ref = [state |-> "text", text |-> text,
                       name |-> <<>>, tag |-> <<>>, rendered |-> <<>>]

NextImages == ParseAndRender

SpecImages == InitImages /\ [][NextImages]_vars


(***************************************************************************)
(* Properties of create_site_packages_volume.                              *)
(***************************************************************************)
\* the volumes of the family in a list of volumes
FamilyOf(vols) ==
    { vols[i] : i \in { j \in 1..Len(vols) : vols[j].name[1] = "lean_cli_python_" } }

NamesOf(vols) == { vols[i].name : i \in 1..Len(vols) }

\* the last call found a volume of the derived name
LastCallHit == vol_hist.calls > 0 /\ required_volume \in NamesOf(vol_hist.before)

LastCallMissed == vol_hist.calls > 0 /\ required_volume \notin NamesOf(vol_hist.before)

\* the volumes of the family the last call removed
RemovedByLastCall == { v \in FamilyOf(vol_hist.before) : v.name \notin NamesOf(volumes) }

\* C11, as the claim states it: after a call, whatever the volumes before it
\* were and whether the derived name was found or not, at most
\* SITE_PACKAGES_VOLUME_LIMIT volumes of the family exist.
C11_AtMostLimitAfterAnyCall ==
    vol_hist.calls > 0 => Cardinality(FamilyOf(volumes)) <= volume_limit

\* C11, amended: after a call that did not find the derived name at most
\* SITE_PACKAGES_VOLUME_LIMIT volumes of the family exist, also when more
\* existed before; after a call that found it, as many exist as before the
\* call, so at most the limit when that held before.
C11_AtMostLimitAfterMiss ==
    /\ LastCallMissed => Cardinality(FamilyOf(volumes)) <= volume_limit
    /\ LastCallHit =>
         Cardinality(FamilyOf(volumes)) = Cardinality(FamilyOf(vol_hist.before))

\* a call that did not find the name started over the limit and ended at it
C11_Witness ==
    /\ LastCallMissed
    /\ Cardinality(FamilyOf(vol_hist.before)) > volume_limit
    /\ Cardinality(FamilyOf(volumes)) = volume_limit

\* C12: a call that did not find the derived name removes exactly
\* max(0, count - limit + 1) volumes of the family, count being how many
\* existed; none of the removed is newer than one it kept; every other
\* volume is kept and the volume of the derived name exists afterwards.
C12_OldestRemovedOnMiss ==
    LastCallMissed =>
        LET family == FamilyOf(vol_hist.before)
            excess == (Cardinality(family) - volume_limit) + 1
        IN  /\ Cardinality(RemovedByLastCall) = (IF excess > 0 THEN excess ELSE 0)
            /\ \A r \in RemovedByLastCall : \A k \in family \ RemovedByLastCall :
                    r.created <= k.created
            /\ \A i \in 1..Len(vol_hist.before) :
                    vol_hist.before[i] \notin RemovedByLastCall
                        => \E j \in 1..Len(volumes) : volumes[j] = vol_hist.before[i]
            /\ required_volume \in NamesOf(volumes)
            /\ Len(volumes) = (Len(vol_hist.before) - Cardinality(RemovedByLastCall)) + 1

\* two volumes were removed and a strictly newer one was kept
C12_Witness ==
    /\ LastCallMissed
    /\ Cardinality(RemovedByLastCall) = 2
    /\ \E r \in RemovedByLastCall : \E k \in FamilyOf(vol_hist.before) \ RemovedByLastCall :
            r.created < k.created

\* C13: a call that finds a volume of the derived name returns that name
\* and leaves the volumes as they were: none removed, none created.
C13_HitChangesNothing ==
    LastCallHit =>
        /\ volumes = vol_hist.before
        /\ \E i \in 1..Len(volumes) : volumes[i].name = required_volume

\* the name was found among more volumes of the family than the limit allows
C13_Witness ==
    /\ LastCallHit
    /\ Cardinality(FamilyOf(vol_hist.before)) > volume_limit

\* the set of the canonical texts of the lines that are requirements
NormalizedSet(lines) ==
    { ParseRequirement(lines[i]) : i \in 1..Len(lines) } \ { "ValueError" }

\* C14: two requirements files with the same set of canonical requirement
\* texts (they differ in the order of the lines, in repeated lines or in
\* lines that are no requirement, which are skipped) give the same name.
C14_NameDependsOnNormalizedSet ==
    (/\ vol_hist.calls = 2
     /\ NormalizedSet(requirements_file) = NormalizedSet(vol_hist.prev_file))
    => required_volume = vol_hist.prev_volume

\* two files of two requirements in opposite order and different spelling
C14_Witness ==
    /\ vol_hist.calls = 2
    /\ vol_hist.prev_file = <<"pandas == 1.0", "numpy">>
    /\ requirements_file = <<"numpy ", "pandas==1.0">>
    /\ required_volume = vol_hist.prev_volume


(***************************************************************************)
(* Properties of the configuration run_image forwards.                     *)
(***************************************************************************)
\* docker_client.containers.run has been called
Forwarded == Len(run_config) > 0

\* what the caller passed under a key, or the default
Passed(key, default) ==
    IF key \in DOMAIN caller_kwargs THEN caller_kwargs[key] ELSE default

\* every line followed by a newline
RECURSIVE Terminated(_)
Terminated(lines) ==
    IF lines = <<>> THEN <<>> ELSE <<Head(lines), "\n">> \o Terminated(Tail(lines))

\* the forwarded configuration has the mounts of the caller and then one
\* bind mount of the script at /lean-cli-start.sh, and its entrypoint runs it
ScriptStaged ==
    LET cfg == run_config[1]
        given == Passed("mounts", <<>>)
    IN  /\ "entrypoint" \in DOMAIN cfg
        /\ cfg["entrypoint"] = <<"bash", "/lean-cli-start.sh">>
        /\ "mounts" \in DOMAIN cfg
        /\ Len(cfg["mounts"]) = Len(given) + 1
        /\ SubSeq(cfg["mounts"], 1, Len(given)) = given
        /\ cfg["mounts"][Len(given) + 1] =
             [target |-> "/lean-cli-start.sh", source |-> "lean-cli-start.sh", type |-> "bind"]
        /\ shell_script =
             << Terminated(<<"#!/usr/bin/env bash", "set -e">> \o caller_kwargs["commands"]) >>

\* no file is written and the forwarded configuration has the mounts and
\* the entrypoint of the caller, or none if the caller gave none
NothingStaged ==
    LET cfg == run_config[1]
    IN  /\ shell_script = <<>>
        /\ \A key \in {"mounts", "entrypoint"} :
              /\ key \in DOMAIN cfg <=> key \in DOMAIN caller_kwargs
              /\ key \in DOMAIN cfg => cfg[key] = caller_kwargs[key]

\* C15: for a list of commands that is not empty, the forwarded
\* configuration has the entrypoint ['bash', '/lean-cli-start.sh'] whatever
\* the caller gave, the caller's mounts followed by one bind mount of the
\* script, and the script is the shebang line, 'set -e' and each command in
\* order, every line ended by a newline.
C15_CommandsStagedAsScript ==
    (Forwarded /\ Passed("commands", <<>>) # <<>>) => ScriptStaged

C15_Witness ==
    /\ Forwarded
    /\ Passed("commands", <<>>) = <<"echo hi", "echo bye">>
    /\ Passed("entrypoint", <<>>) = <<"python">>
    /\ Len(Passed("mounts", <<>>)) = 1
    /\ Len(run_config[1]["mounts"]) = 2
    /\ shell_script = << <<"#!/usr/bin/env bash", "\n", "set -e", "\n",
                           "echo hi", "\n", "echo bye", "\n">> >>

\* C16, as the claim states it: for commands that are absent or an empty
\* list no script is written, no mount is added and the entrypoint of the
\* caller is forwarded.
C16_NothingStagedWhenEmptyOrAbsent ==
    (Forwarded /\ Passed("commands", <<>>) = <<>>) => NothingStaged

\* C16, amended: for absent commands no script is written, no mount is added
\* and the entrypoint of the caller is forwarded; an empty list of commands
\* is staged like any other list.
C16_NothingStagedWhenAbsent ==
    /\ (Forwarded /\ "commands" \notin DOMAIN caller_kwargs) => NothingStaged
    /\ (Forwarded /\ "commands" \in DOMAIN caller_kwargs) => ScriptStaged

\* no commands, but an entrypoint and a mount
C16_Witness ==
    /\ Forwarded
    /\ "commands" \notin DOMAIN caller_kwargs
    /\ Passed("entrypoint", <<>>) = <<"python">>
    /\ Len(Passed("mounts", <<>>)) = 1
    /\ run_config[1]["entrypoint"] = <<"python">>
    /\ run_config[1]["mounts"] = caller_kwargs["mounts"]

\* C19: the forwarded configuration has detach true, and tty and stdin_open
\* equal to whether standard output is a terminal, whatever the caller gave.
C19_DetachAndTtyForced ==
    Forwarded =>
        /\ {"detach", "tty", "stdin_open"} \subseteq DOMAIN run_config[1]
        /\ run_config[1]["detach"] = TRUE
        /\ run_config[1]["tty"] = is_tty
        /\ run_config[1]["stdin_open"] = is_tty

\* the caller gave the opposite of every forced value
C19_Witness ==
    /\ Forwarded
    /\ ~is_tty
    /\ Passed("detach", TRUE) = FALSE
    /\ Passed("tty", FALSE) = TRUE
    /\ Passed("stdin_open", FALSE) = TRUE
    /\ run_config[1]["detach"] = TRUE

\* C20: no configuration handed to the runtime client has the key on_output
\* or the key commands, whether the caller gave them or not.
C20_OrchestratorFieldsRemoved ==
    \A i \in 1..Len(run_config) :
        /\ "on_output" \notin DOMAIN run_config[i]
        /\ "commands" \notin DOMAIN run_config[i]

\* the caller gave both
C20_Witness ==
    /\ Forwarded
    /\ {"on_output", "commands"} \subseteq DOMAIN caller_kwargs


\* C21: the stop signal handed to the runtime client, and the one the
\* handler reads from kwargs, is the stop_signal of the caller if the caller
\* passed one and SIGKILL if not.
C21_StopSignalDefaultsToKill ==
    Forwarded =>
        /\ run_config[1]["stop_signal"] = Passed("stop_signal", "SIGKILL")
        /\ kwargs["stop_signal"] = Passed("stop_signal", "SIGKILL")

\* the caller passed SIGTERM and the handler, reading it, went on to stop
C21_Witness ==
    /\ Forwarded
    /\ Passed("stop_signal", "SIGKILL") = "SIGTERM"
    /\ run_config[1]["stop_signal"] = "SIGTERM"
    /\ \E i \in 1..Len(handlers) : handlers[i].branch = "stop"


\* C22: if the Docker daemon cannot be reached (from_env raises, ping
\* returns false or ping raises), run_image ends with the MoreInfoError of
\* _get_docker_client, nothing was pulled and no container was created.
C22_UnreachableDaemonFailsFirst ==
    docker_daemon # "running" =>
        /\ hist.pulls = 0
        /\ container.state = "none"
        /\ run_config = <<>>
        /\ pc \in {"image_installed", "raised"}
        /\ (pc = "raised" /\ hist.interrupts = 0) => error = "MoreInfoError"

\* ping returned false and run_image raised
C22_Witness ==
    /\ docker_daemon = "ping_false"
    /\ pc = "raised"
    /\ error = "MoreInfoError"


(***************************************************************************)
(* Properties of the flag force_kill.                                      *)
(***************************************************************************)
\* the step is one of the thread print_logs
LogTaskSteps ==
    \/ thread' # thread
    \/ chunk_buffer' # chunk_buffer
    \/ hist'.chunks # hist.chunks
    \/ hist'.stdin_writes # hist.stdin_writes

\* the step is the assignment of line 129 in an invocation of the handler
\* that goes on to the graceful stop
HandlerSetsFlag ==
    /\ handlers # <<>>
    /\ Top.pc = "set_flag"
    /\ Top.branch = "stop"
    /\ force_kill' = TRUE

\* C23: force_kill is false until an invocation of the handler has emitted
\* the notice of the graceful stop; only the assignment in the handler
\* changes it, to true; every step of the thread print_logs leaves it as
\* it is.
C23_FlagWrittenOnlyByHandler ==
    /\ [](hist.notices = 0 => ~force_kill)
    /\ [][ /\ LogTaskSteps => force_kill' = force_kill
           /\ force_kill' # force_kill => HandlerSetsFlag ]_vars

\* the flag is set and the thread has read output and has ended
C23_Witness ==
    /\ force_kill
    /\ hist.chunks > 0
    /\ thread = "done"


(***************************************************************************)
(* Properties of create_volume.                                            *)
(***************************************************************************)
\* C24: after create_volume exactly one volume has the given name; the
\* volumes there were are all still there, unchanged and in their order;
\* one volume was added if none had the name and none otherwise, so a
\* second call with the same name changes nothing.
C24_CreateVolumeIdempotent ==
    vol_hist.name # <<>> =>
        LET before == vol_hist.before
        IN  /\ Cardinality({ i \in 1..Len(volumes) : volumes[i].name = vol_hist.name }) = 1
            /\ SubSeq(volumes, 1, Len(before)) = before
            /\ Len(volumes) = Len(before) + (IF vol_hist.name \in NamesOf(before) THEN 0 ELSE 1)
            /\ vol_hist.prev_volume = vol_hist.name => volumes = before

\* the second of two calls with a name that no volume had before the first
C24_Witness ==
    /\ vol_hist.calls = 2
    /\ vol_hist.prev_volume = <<"lean_cli_", "nuget">>
    /\ vol_hist.name = <<"lean_cli_", "nuget">>
    /\ Len(volumes) >= 2
    /\ volumes = vol_hist.before


(***************************************************************************)
(* Properties of the command pull.                                         *)
(***************************************************************************)
\* the positions, in the list of the cloud, of the projects to be pulled
PulledFrom(keep(_)) ==
    LET all == pull_cmd.all_projects
        kept == { i \in 1..Len(all) : keep(all[i]) }
    IN  /\ Len(pull_cmd.pulled) = Cardinality(kept)
        /\ \A i \in kept : \E j \in 1..Len(pull_cmd.pulled) : pull_cmd.pulled[j] = all[i]
        /\ \A j \in 1..Len(pull_cmd.pulled) : \E i \in kept : pull_cmd.pulled[j] = all[i]

\* the project is the one --project names, by its id or by its name
Selected(p) ==
    LET text == pull_cmd.project.text
    IN  \/ text = <<"1">> /\ p.id = 1
        \/ text = <<"2">> /\ p.id = 2
        \/ p.name = text

\* C25: without --project and without --pull-bootcamp, pull_projects gets
\* exactly the projects of the cloud whose name does not start with
\* 'Boot Camp/'; with --pull-bootcamp and without --project it gets all;
\* with --project it gets the projects selected, Boot Camp or not.
C25_BootCampFilteredByDefault ==
    pull_cmd.state = "pulled" =>
        IF pull_cmd.project.given
        THEN PulledFrom(Selected)
        ELSE IF pull_cmd.pull_bootcamp
             THEN pull_cmd.pulled = pull_cmd.all_projects
             ELSE PulledFrom(LAMBDA p : p.name[1] # "Boot Camp/")

\* all projects are pulled but the one of Boot Camp, and not one that only
\* has Boot Camp in its name
C25_Witness ==
    /\ pull_cmd.state = "pulled"
    /\ ~pull_cmd.project.given /\ ~pull_cmd.pull_bootcamp
    /\ Len(pull_cmd.all_projects) = 3
    /\ \E i \in 1..3 : pull_cmd.all_projects[i].id = 2
    /\ Len(pull_cmd.pulled) = 2
    /\ \A j \in 1..2 : pull_cmd.pulled[j].id \in {3, 4}


(***************************************************************************)
(* Properties of the image references.                                     *)
(***************************************************************************)
\* C26: a text without a colon, parsed and rendered, is the text followed
\* by ':latest'; a text name:tag is parsed into that name and that tag, and
\* rendered it is the text again.
C26_ImageRoundTrip ==
    image_ref.state = "parsed" =>
        LET text == image_ref.text
        IN  IF \A i \in 1..Len(text) : text[i] # ":"
            THEN /\ image_ref.rendered = text \o <<":", "l", "a", "t", "e", "s", "t">>
                 /\ image_ref.name = text
            ELSE /\ image_ref.rendered = text
                 /\ \A i \in 1..Len(image_ref.tag) : image_ref.tag[i] # ":"
                 /\ text = image_ref.name \o <<":">> \o image_ref.tag

\* a name with a slash, and a tag
C26_Witness ==
    /\ image_ref.state = "parsed"
    /\ image_ref.text = <<"/", "a", ":", "a">>
    /\ image_ref.name = <<"/", "a">>
    /\ image_ref.tag = <<"a">>
    /\ image_ref.rendered = image_ref.text


(***************************************************************************)
(* Properties of the thread print_logs.                                    *)
(***************************************************************************)
\* the units one after the other, each followed by the given end
RECURSIVE Flatten(_, _)
Flatten(units, end) ==
    IF units = <<>> THEN <<>>
    ELSE Head(units) \o end \o Flatten(Tail(units), end)

\* how many newlines a text has
Newlines(text) == Cardinality({ i \in 1..Len(text) : text[i] = "\n" })

\* C27, as the claim states it: when the thread has ended, the units given
\* to on_output, one after the other, are the bytes the container wrote,
\* and so are the texts given to the logger, each printed as a line; also
\* if the last chunk does not end with a newline.
C27_AllOutputForwarded ==
    (hist.record /\ thread = "done") =>
        /\ Flatten(hist.forwarded, <<>>) = hist.produced
        /\ Flatten(hist.logged, <<"\n">>) = hist.produced

C29_OneStopOneNotice ==
    /\ Len(hist.stops) <= 1
    /\ hist.notices <= 1


\* C30, as the claim states it: no kill, stop, remove or write to the input
\* stream is requested of a container that has been removed, whenever the
\* interrupts arrive: during the run, between the remove and the return, or
\* after the return.
C30_NoRequestAfterRemove ==
    hist.after_remove = {}


(***************************************************************************)
(* The frame of create_site_packages_volume.                               *)
(***************************************************************************)
\* the volumes of a list that are not of the family, in the order of the list
OutsideFamily(vols) == SelectSeq(vols, LAMBDA v : ~StartsWith(v.name, SitePackagesPrefix))

\* C31: a call removes and creates only volumes whose name starts with
\* lean_cli_python_: the volumes of every other name are after the call
\* what they were before it, every volume gone or new has a name of the
\* family, and a volume of the returned name exists.
C31_OnlyFamilyTouched ==
    vol_hist.calls > 0 =>
        /\ OutsideFamily(volumes) = OutsideFamily(vol_hist.before)
        /\ \A i \in 1..Len(vol_hist.before) :
              vol_hist.before[i].name \notin NamesOf(volumes)
                  => StartsWith(vol_hist.before[i].name, SitePackagesPrefix)
        /\ \A i \in 1..Len(volumes) :
              volumes[i].name \notin NamesOf(vol_hist.before)
                  => StartsWith(volumes[i].name, SitePackagesPrefix)
        /\ StartsWith(required_volume, SitePackagesPrefix)
        /\ required_volume \in NamesOf(volumes)

\* a call removed a volume of the family and created one, while the oldest
\* volume there was is of another family and is still there
C31_Witness ==
    /\ LastCallMissed
    /\ RemovedByLastCall # {}
    /\ OutsideFamily(vol_hist.before) # <<>>
    /\ \A i \in 1..Len(vol_hist.before) :
          OutsideFamily(vol_hist.before)[1].created <= vol_hist.before[i].created
    /\ OutsideFamily(volumes) = OutsideFamily(vol_hist.before)


(***************************************************************************)
(* Termination of a run.                                                   *)
(***************************************************************************)
\* run_image has returned and the container is removed
ReturnedAfterRemove == pc = "returned" /\ container.state = "removed"

\* C32: when no interrupt arrives, the output stream of the container
\* closes (the thread ends) and the container exits, run_image returns
\* after it removed the container; when an interrupt is handled by
\* signal_handler the process exits: the graceful stop waits 60 at most.
C32_RunTerminates ==
    /\ ([](hist.interrupts = 0) /\ <>(thread = "done") /\ <>(container.state = "exited"))
           => <>ReturnedAfterRemove
    /\ (hist.handled > 0) ~> (exit_status = 1)
    /\ [](\A i \in 1..Len(hist.stops) : hist.stops[i] = StopTimeout)

\* the process exited after a graceful stop that ended with the container
\* killed, and the handler removed the container
C32_Witness ==
    /\ exit_status = 1
    /\ Len(hist.stops) = 1
    /\ container = [state |-> "removed", exit_code |-> KilledExitCode]


(***************************************************************************)
(* The flag force_kill over the run.                                       *)
(***************************************************************************)
\* C33: once force_kill is true no step of the run makes it false, and in
\* every state where it is true standard output is a terminal, the stop
\* signal the container was configured with is not SIGKILL and at least
\* one interrupt has been received.
C33_FlagMonotonicAndGuarded ==
    /\ [][force_kill => force_kill']_vars
    /\ [](force_kill =>
            /\ is_tty
            /\ Has(kwargs, "stop_signal")
            /\ kwargs["stop_signal"] # "SIGKILL"
            /\ Len(run_config) = 1
            /\ run_config[1]["stop_signal"] # "SIGKILL"
            /\ hist.interrupts >= 1)

\* the flag was set on the first interrupt and is still set when the
\* process exits on the second
C33_Witness ==
    /\ force_kill
    /\ hist.interrupts = 2
    /\ hist.kills = 1
    /\ exit_status = 1

====
